---- MODULE Spec2Model ----
(***************************************************************************)
(* Model of streamlit_app.py: the APIManager provider adapters and the     *)
(* "Main search logic" script block (Steps 1-4) that builds, enriches and  *)
(* formats the contact list.                                               *)
(*                                                                         *)
(* Python values are modelled as strings.  Two sentinels stand for the     *)
(* two ways a JSON/dict field can be missing: ABSENT (the key is not in    *)
(* the dict, so dict.get returns its default) and NONE (the key is there   *)
(* and holds null/None, so dict.get returns None).  A nested object is a   *)
(* record [kind, ...] with kind "absent", "null" or "obj".                 *)
(***************************************************************************)
EXTENDS Integers, Sequences, FiniteSets, TLC

\* ---------------------------------------------------------------- bounds
\* Longest people list the people-search provider returns in the model.
MaxPeople == 2
\* Largest value of the "Number of Results" slider in the model (the slider
\* of the program ranges over 5..50; no branch of the code reads the value,
\* it is only sent as page_size, so the range is scaled down to 1..MaxLimit).
MaxLimit == 2

\* ------------------------------------------------------ program constants
\* find_email_hunter: `email_data.get('confidence') > 50`
ConfidenceThreshold == 50

ABSENT == "<absent>"
NONE == "<None>"
NotAvailable == "Not Available"

Apis == {"hunter", "apollo", "clearbit"}
Cities == {"Pune"}

\* ------------------------------------------------------ Python primitives
\* dict.get(key, default): the default is used only when the key is absent;
\* a key that holds null yields None.
Get(v, default) == IF v = ABSENT THEN default ELSE v

\* dict.get(key) without default: None when absent.
GetOrNone(v) == IF v = ABSENT THEN NONE ELSE v

\* Python truth value of a str-or-None.
Truthy(v) == v /= "" /\ v /= NONE

\* str(v) inside an f-string, as the list of whitespace-separated words of
\* the result: None formats as the word None, the empty string as no word.
Words(v) == IF v = "" THEN <<>> ELSE IF v = NONE THEN <<"None">> ELSE <<v>>

VARIABLES
    keys,            \* APIManager.*_api_key present?  [Apis -> BOOLEAN]
    api_status,      \* result of test_api_connections
    pc,              \* position of the script
    message,         \* st.error / st.warning / st.success shown
    selected_city,
    selected_roles,  \* TRUE iff the multiselect of job roles is non-empty
    max_results,
    apollo_results,  \* list of person objects returned by Step 1's call
    all_contacts,
    stage1_contacts, \* all_contacts as Step 1 left it
    cur,             \* loop index of the running for-loop
    lastHunter,      \* the email-finder reply of the latest Step 2 call
    lastClearbit,    \* the company-enrichment reply of the latest Step 3 call
    hunterCalls,     \* indexes of contacts find_email_hunter was called for
    clearbitCalls,   \* indexes of contacts enrich_company_clearbit was called for
    hunterSet,       \* indexes of contacts whose email Step 2 set
    crashedIn,       \* step in which an uncaught exception ended the script
    rows,            \* formatted_data
    metrics

vars == <<keys, api_status, pc, message, selected_city, selected_roles,
          max_results, apollo_results, all_contacts, stage1_contacts, cur,
          lastHunter, lastClearbit, hunterCalls, clearbitCalls, hunterSet, crashedIn,
          rows, metrics>>


\* ------------------------------------------- people-search reply (Apollo)
\* A person object of the provider's reply.  Every field may be absent or
\* null; first_name/last_name, when given, are single words.
BasePerson ==
    [first_name |-> "Asha", last_name |-> "Rao", title |-> "Data Engineer",
     organization |-> [kind |-> "obj", name |-> "Acme"],
     city |-> ABSENT, linkedin_url |-> ABSENT, email |-> ABSENT,
     phone_numbers |-> [kind |-> "absent", items |-> <<>>]]

\* phone_numbers items: NONE is a null entry, anything else is the entry's
\* raw_number (ABSENT when the entry has no such key).
PersonPool ==
    { BasePerson,
      [BasePerson EXCEPT !.city = "Mumbai",
                         !.linkedin_url = "https://linkedin.com/in/asha-rao",
                         !.email = "asha@acme.com",
                         !.phone_numbers = [kind |-> "list", items |-> <<"+91 98200 00000">>]],
      [first_name |-> ABSENT, last_name |-> ABSENT, title |-> ABSENT,
       organization |-> [kind |-> "absent", name |-> ABSENT],
       city |-> ABSENT, linkedin_url |-> ABSENT, email |-> ABSENT,
       phone_numbers |-> [kind |-> "list", items |-> <<>>]],
      [BasePerson EXCEPT !.title = NONE, !.linkedin_url = NONE, !.email = NONE,
                         !.organization = [kind |-> "obj", name |-> "Data Works"],
                         !.phone_numbers = [kind |-> "null", items |-> <<>>]],
      [BasePerson EXCEPT !.last_name = ABSENT, !.email = "", !.linkedin_url = "",
                         !.phone_numbers = [kind |-> "list", items |-> <<ABSENT>>]],
      [BasePerson EXCEPT !.organization = [kind |-> "obj", name |-> NONE]],
      [BasePerson EXCEPT !.organization = [kind |-> "null", name |-> ABSENT]],
      [BasePerson EXCEPT !.phone_numbers = [kind |-> "list", items |-> <<NONE>>]] }

RECURSIVE SeqsUpTo(_, _)
SeqsUpTo(S, n) ==
    IF n = 0 THEN {<<>>}
    ELSE LET shorter == SeqsUpTo(S, n - 1)
         IN  shorter \cup {Append(q, x) : q \in {r \in shorter : Len(r) = n - 1}, x \in S}

PeopleLists == SeqsUpTo(PersonPool, MaxPeople)

\* The HTTP exchange of search_professionals_apollo: a transport exception,
\* a non-200 status, or a 200 whose JSON has a "people" list (or none).
ApolloReplies ==
    {[status |-> "exception", people_kind |-> "absent", people |-> <<>>],
     [status |-> "500", people_kind |-> "absent", people |-> <<>>],
     [status |-> "200", people_kind |-> "absent", people |-> <<>>]}
    \cup {[status |-> "200", people_kind |-> "list", people |-> ps] : ps \in PeopleLists}

\* APIManager.search_professionals_apollo
search_professionals_apollo(reply) ==
    IF ~keys["apollo"] THEN <<>>
    ELSE IF reply.status = "200"
         THEN IF reply.people_kind = "absent" THEN <<>> ELSE reply.people
         ELSE <<>>

\* ---------------------------------------------- email-finder reply (Hunter)
HunterEmail == "asha.rao@found.example"
ConfidenceValues == {0, ConfidenceThreshold, ConfidenceThreshold + 1}

\* data_kind: the reply's "data" member; conf_kind/confidence and email are
\* the members of that object.
HunterReplies ==
    {[status |-> "exception", data_kind |-> "absent", conf_kind |-> "absent",
      confidence |-> 0, email |-> ABSENT],
     [status |-> "500", data_kind |-> "obj", conf_kind |-> "int",
      confidence |-> ConfidenceThreshold + 1, email |-> HunterEmail],
     [status |-> "200", data_kind |-> "absent", conf_kind |-> "absent",
      confidence |-> 0, email |-> ABSENT],
     [status |-> "200", data_kind |-> "null", conf_kind |-> "absent",
      confidence |-> 0, email |-> ABSENT],
     [status |-> "200", data_kind |-> "obj", conf_kind |-> "absent",
      confidence |-> 0, email |-> HunterEmail]}
    \cup {[status |-> "200", data_kind |-> "obj", conf_kind |-> "int",
           confidence |-> c, email |-> e] :
              c \in ConfidenceValues, e \in {ABSENT, "", HunterEmail}}

\* Mutant of ConfidenceAccepted: the threshold itself is accepted (>=).
ConfidenceAcceptedAtThreshold(c) == c >= ConfidenceThreshold

\* `email_data.get('confidence') > 50`
ConfidenceAccepted(c) == c > ConfidenceThreshold

\* APIManager.find_email_hunter: the returned Optional[str].
find_email_hunter(reply) ==
    IF ~keys["hunter"] THEN NONE
    ELSE IF reply.status = "exception" THEN NONE          \* except: return None
    ELSE IF reply.status /= "200" THEN NONE
    ELSE IF reply.data_kind = "null" THEN NONE            \* None.get raises, caught
    ELSE IF reply.data_kind = "absent" THEN NONE          \* {}.get('confidence') is None
    ELSE IF reply.conf_kind = "int" /\ reply.confidence /= 0
            /\ ConfidenceAccepted(reply.confidence)
         THEN GetOrNone(reply.email)
         ELSE NONE

\* ------------------------------------- company-enrichment reply (Clearbit)
\* body.empty: the JSON object has no member at all ({}); metrics/category
\* are its nested objects.
EmptyBody ==
    [empty |-> TRUE, metrics |-> [kind |-> "absent", employees |-> ABSENT],
     category |-> [kind |-> "absent", industry |-> ABSENT]]

FullBody ==
    [empty |-> FALSE, metrics |-> [kind |-> "obj", employees |-> "250"],
     category |-> [kind |-> "obj", industry |-> "Software"]]

ClearbitReplies ==
    {[status |-> "exception", body |-> EmptyBody],
     [status |-> "404", body |-> FullBody],
     [status |-> "200", body |-> EmptyBody],
     [status |-> "200", body |-> FullBody],
     [status |-> "200", body |-> [EmptyBody EXCEPT !.empty = FALSE]],
     [status |-> "200", body |-> [FullBody EXCEPT !.metrics.kind = "null"]],
     [status |-> "200", body |-> [FullBody EXCEPT !.category.kind = "null"]]}

\* APIManager.enrich_company_clearbit: the returned dict.
enrich_company_clearbit(reply) ==
    IF ~keys["clearbit"] THEN EmptyBody
    ELSE IF reply.status = "200" THEN reply.body
    ELSE EmptyBody


\* --------------------------------------------------- Step 1: the contact
\* The uncaught exceptions of the dict literal: `.get` on a null
\* organization, `.get` on a null first phone entry.
Step1Raises(person) ==
    \/ person.organization.kind = "null"
    \/ /\ person.phone_numbers.kind = "list"
       /\ person.phone_numbers.items /= <<>>
       /\ person.phone_numbers.items[1] = NONE

\* The contact dict built from one person object.  name is the list of the
\* words of f"{first} {last}".strip(); the string is the words joined by
\* single blanks, and is empty exactly when there is no word.
MakeContact(person, city) ==
    [name |-> Words(Get(person.first_name, "")) \o Words(Get(person.last_name, "")),
     title |-> Get(person.title, ""),
     company |-> IF person.organization.kind = "absent" THEN ""
                 ELSE Get(person.organization.name, ""),
     location |-> Get(person.city, city),
     linkedin_url |-> Get(person.linkedin_url, ""),
     email |-> Get(person.email, ""),
     phone |-> IF person.phone_numbers.kind = "list" /\ person.phone_numbers.items /= <<>>
               THEN Get(person.phone_numbers.items[1], "")
               ELSE "",
     source |-> <<"Apollo.io">>,
     company_size |-> ABSENT,
     company_industry |-> ABSENT]

\* Index of the first person whose contact construction raises, or 0.
RECURSIVE FirstRaising(_, _)
FirstRaising(people, i) ==
    IF i > Len(people) THEN 0
    ELSE IF Step1Raises(people[i]) THEN i
    ELSE FirstRaising(people, i + 1)

\* ------------------------------------------------------------------ Init
NoReply ==
    [called |-> FALSE, idx |-> 0, domain |-> "", first_name |-> "", last_name |-> "",
     reply |-> [status |-> "exception", data_kind |-> "absent", conf_kind |-> "absent",
                confidence |-> 0, email |-> ABSENT]]

NoLookup ==
    [called |-> FALSE, idx |-> 0, name |-> "", reply |-> [status |-> "exception", body |-> EmptyBody]]

NoMetrics == [total |-> 0, emails_found |-> 0, phones_found |-> 0, companies |-> 0]

Init ==
    /\ keys \in [Apis -> BOOLEAN]
    /\ api_status = [a \in Apis |-> FALSE]
    /\ pc = "start"
    /\ message = "none"
    /\ selected_city \in Cities
    /\ selected_roles \in BOOLEAN
    /\ max_results \in 1..MaxLimit
    /\ apollo_results = <<>>
    /\ all_contacts = <<>>
    /\ stage1_contacts = <<>>
    /\ cur = 0
    /\ lastHunter = NoReply
    /\ lastClearbit = NoLookup
    /\ hunterCalls = {}
    /\ clearbitCalls = {}
    /\ hunterSet = {}
    /\ crashedIn = "none"
    /\ rows = <<>>
    /\ metrics = NoMetrics

\* ------------------------------------------------- test_api_connections
\* A provider is connected iff its key is set and the probe answered 200.
TestApiConnections ==
    /\ pc = "start"
    /\ \E probe \in [Apis -> BOOLEAN] :
          api_status' = [a \in Apis |-> keys[a] /\ probe[a]]
    /\ pc' = "idle"
    /\ UNCHANGED <<keys, message, selected_city, selected_roles, max_results,
                   apollo_results, all_contacts, stage1_contacts, cur, lastHunter, lastClearbit,
                   hunterCalls, clearbitCalls, hunterSet, crashedIn, rows, metrics>>

\* Mutant of AnyApiAvailable: the availability check is dropped.
AnyApiAvailableAssumed == TRUE

\* `any(api_status.values())`
AnyApiAvailable == \E a \in Apis : api_status[a]

\* Mutant of ApolloAvailable: Step 1 runs whatever the availability map says.
ApolloAvailableAlways == TRUE

\* `api_status.get('apollo')`
ApolloAvailable == api_status["apollo"]

\* ------------------------------------------- search button: validation
SearchNoRoles ==
    /\ pc = "idle"
    /\ ~selected_roles
    /\ message' = "select_role"
    /\ pc' = "error"
    /\ UNCHANGED <<keys, api_status, selected_city, selected_roles, max_results,
                   apollo_results, all_contacts, stage1_contacts, cur, lastHunter, lastClearbit,
                   hunterCalls, clearbitCalls, hunterSet, crashedIn, rows, metrics>>

SearchNoApi ==
    /\ pc = "idle"
    /\ selected_roles
    /\ ~AnyApiAvailable
    /\ message' = "no_api"
    /\ pc' = "error"
    /\ UNCHANGED <<keys, api_status, selected_city, selected_roles, max_results,
                   apollo_results, all_contacts, stage1_contacts, cur, lastHunter, lastClearbit,
                   hunterCalls, clearbitCalls, hunterSet, crashedIn, rows, metrics>>

SearchStart ==
    /\ pc = "idle"
    /\ selected_roles
    /\ AnyApiAvailable
    /\ all_contacts' = <<>>
    /\ pc' = "step1"
    /\ UNCHANGED <<keys, api_status, message, selected_city, selected_roles,
                   max_results, apollo_results, stage1_contacts, cur, lastHunter, lastClearbit,
                   hunterCalls, clearbitCalls, hunterSet, crashedIn, rows, metrics>>

\* --------------------------------------------- Step 1: Search with Apollo
Step1Skip ==
    /\ pc = "step1"
    /\ ~ApolloAvailable
    /\ pc' = "step2"
    /\ UNCHANGED <<keys, api_status, message, selected_city, selected_roles,
                   max_results, apollo_results, all_contacts, stage1_contacts, cur,
                   lastHunter, lastClearbit, hunterCalls, clearbitCalls, hunterSet, crashedIn,
                   rows, metrics>>

\* The call (page_size = max_results) and the for-loop over its result.
\* The loop appends one contact per person and stops at the first person
\* whose contact construction raises; the exception ends the script.
Step1Search ==
    /\ pc = "step1"
    /\ ApolloAvailable
    /\ \E reply \in ApolloReplies :
          LET people == search_professionals_apollo(reply)
              k == FirstRaising(people, 1)
              n == IF k = 0 THEN Len(people) ELSE k - 1
              built == [i \in 1..n |-> MakeContact(people[i], selected_city)]
          IN  /\ apollo_results' = people
              /\ all_contacts' = built
              /\ stage1_contacts' = built
              /\ pc' = IF k = 0 THEN "step2" ELSE "crashed"
              /\ crashedIn' = IF k = 0 THEN crashedIn ELSE "step1"
    /\ UNCHANGED <<keys, api_status, message, selected_city, selected_roles,
                   max_results, cur, lastHunter, lastClearbit, hunterCalls, clearbitCalls,
                   hunterSet, rows, metrics>>


\* ------------------------------------ Step 2: Enhance with Hunter.io emails
\* `if not contact['email'] and contact['company']`
HunterApplies(c) == ~Truthy(c.email) /\ Truthy(c.company)

\* f"{contact['company'].lower().replace(' ', '')}.com", tabulated for the
\* company names of PersonPool.
CompanyDomain(company) ==
    CASE company = "Acme" -> "acme.com"
      [] company = "Data Works" -> "dataworks.com"
      [] OTHER -> "other.com"

\* Mutant of AcceptEmail: source is assigned (=) instead of appended to (+=).
AcceptEmailOverwritingSource(c, enhanced_email) ==
    [c EXCEPT !.email = enhanced_email, !.source = <<"Hunter.io">>]

\* `contact['email'] = enhanced_email; contact['source'] += ' + Hunter.io'`
\* (source is kept as the list of the names joined by " + ").
AcceptEmail(c, enhanced_email) ==
    [c EXCEPT !.email = enhanced_email, !.source = Append(@, "Hunter.io")]

Step2SkipStage ==
    /\ pc = "step2"
    /\ ~(api_status["hunter"] /\ all_contacts /= <<>>)
    /\ pc' = "step3"
    /\ UNCHANGED <<keys, api_status, message, selected_city, selected_roles,
                   max_results, apollo_results, all_contacts, stage1_contacts, cur,
                   lastHunter, lastClearbit, hunterCalls, clearbitCalls, hunterSet, crashedIn,
                   rows, metrics>>

Step2Begin ==
    /\ pc = "step2"
    /\ api_status["hunter"] /\ all_contacts /= <<>>
    /\ pc' = "step2loop"
    /\ cur' = 1
    /\ UNCHANGED <<keys, api_status, message, selected_city, selected_roles,
                   max_results, apollo_results, all_contacts, stage1_contacts,
                   lastHunter, lastClearbit, hunterCalls, clearbitCalls, hunterSet, crashedIn,
                   rows, metrics>>

\* A loop iteration that calls nothing: the contact has an email or no
\* company, or its name has fewer than two words.
Step2NoCall ==
    /\ pc = "step2loop"
    /\ cur <= Len(all_contacts)
    /\ ~(HunterApplies(all_contacts[cur]) /\ Len(all_contacts[cur].name) >= 2)
    /\ cur' = cur + 1
    /\ UNCHANGED <<keys, api_status, pc, message, selected_city, selected_roles,
                   max_results, apollo_results, all_contacts, stage1_contacts,
                   lastHunter, lastClearbit, hunterCalls, clearbitCalls, hunterSet, crashedIn,
                   rows, metrics>>

\* A loop iteration that calls find_email_hunter(names[0], names[-1], domain).
Step2Call ==
    /\ pc = "step2loop"
    /\ cur <= Len(all_contacts)
    /\ HunterApplies(all_contacts[cur])
    /\ Len(all_contacts[cur].name) >= 2
    /\ \E reply \in HunterReplies :
          LET c == all_contacts[cur]
              enhanced_email == find_email_hunter(reply)
          IN  /\ lastHunter' = [called |-> TRUE, idx |-> cur,
                                domain |-> CompanyDomain(c.company),
                                first_name |-> c.name[1],
                                last_name |-> c.name[Len(c.name)],
                                reply |-> reply]
              /\ hunterCalls' = hunterCalls \cup {cur}
              /\ IF Truthy(enhanced_email)
                 THEN /\ all_contacts' = [all_contacts EXCEPT ![cur] = AcceptEmail(c, enhanced_email)]
                      /\ hunterSet' = hunterSet \cup {cur}
                 ELSE UNCHANGED <<all_contacts, hunterSet>>
    /\ cur' = cur + 1
    /\ UNCHANGED <<keys, api_status, pc, message, selected_city, selected_roles,
                   max_results, apollo_results, stage1_contacts, lastClearbit,
                   clearbitCalls, crashedIn, rows, metrics>>

Step2End ==
    /\ pc = "step2loop"
    /\ cur > Len(all_contacts)
    /\ pc' = "step3"
    /\ UNCHANGED <<keys, api_status, message, selected_city, selected_roles,
                   max_results, apollo_results, all_contacts, stage1_contacts, cur,
                   lastHunter, lastClearbit, hunterCalls, clearbitCalls, hunterSet, crashedIn,
                   rows, metrics>>

\* ------------------------------------------- Step 3: Enrich company data
\* Mutant of ClearbitApplies: the company check of Step 3 is dropped.
ClearbitAppliesAlways(c) == TRUE

\* `if contact['company']`
ClearbitApplies(c) == Truthy(c.company)

\* `company_data.get('metrics', {}).get('employees', '')` raises when
\* metrics is null; likewise category.
MetricsRaises(company_data) == company_data.metrics.kind = "null"
CategoryRaises(company_data) == company_data.category.kind = "null"

SetCompanySize(c, company_data) ==
    [c EXCEPT !.company_size =
        IF company_data.metrics.kind = "absent" THEN ""
        ELSE Get(company_data.metrics.employees, "")]

SetCompanyIndustry(c, company_data) ==
    [c EXCEPT !.company_industry =
        IF company_data.category.kind = "absent" THEN ""
        ELSE Get(company_data.category.industry, "")]

Step3SkipStage ==
    /\ pc = "step3"
    /\ ~(api_status["clearbit"] /\ all_contacts /= <<>>)
    /\ pc' = "step4"
    /\ UNCHANGED <<keys, api_status, message, selected_city, selected_roles,
                   max_results, apollo_results, all_contacts, stage1_contacts, cur,
                   lastHunter, lastClearbit, hunterCalls, clearbitCalls, hunterSet, crashedIn,
                   rows, metrics>>

Step3Begin ==
    /\ pc = "step3"
    /\ api_status["clearbit"] /\ all_contacts /= <<>>
    /\ pc' = "step3loop"
    /\ cur' = 1
    /\ UNCHANGED <<keys, api_status, message, selected_city, selected_roles,
                   max_results, apollo_results, all_contacts, stage1_contacts,
                   lastHunter, lastClearbit, hunterCalls, clearbitCalls, hunterSet, crashedIn,
                   rows, metrics>>

Step3NoCall ==
    /\ pc = "step3loop"
    /\ cur <= Len(all_contacts)
    /\ ~ClearbitApplies(all_contacts[cur])
    /\ cur' = cur + 1
    /\ UNCHANGED <<keys, api_status, pc, message, selected_city, selected_roles,
                   max_results, apollo_results, all_contacts, stage1_contacts,
                   lastHunter, lastClearbit, hunterCalls, clearbitCalls, hunterSet, crashedIn,
                   rows, metrics>>

\* A loop iteration that calls enrich_company_clearbit(contact['company']).
\* The two assignments run in order; an exception in the second leaves the
\* first one done.  An uncaught exception ends the script.
Step3Call ==
    /\ pc = "step3loop"
    /\ cur <= Len(all_contacts)
    /\ ClearbitApplies(all_contacts[cur])
    /\ \E reply \in ClearbitReplies :
          LET c == all_contacts[cur]
              company_data == enrich_company_clearbit(reply)
          IN  /\ lastClearbit' = [called |-> TRUE, idx |-> cur, name |-> c.company,
                                  reply |-> reply]
              /\ clearbitCalls' = clearbitCalls \cup {cur}
              /\ IF company_data.empty
                 THEN UNCHANGED <<all_contacts, pc, crashedIn>>
                 ELSE IF MetricsRaises(company_data)
                 THEN /\ pc' = "crashed"
                      /\ crashedIn' = "step3"
                      /\ UNCHANGED all_contacts
                 ELSE IF CategoryRaises(company_data)
                 THEN /\ pc' = "crashed"
                      /\ crashedIn' = "step3"
                      /\ all_contacts' = [all_contacts EXCEPT ![cur] = SetCompanySize(c, company_data)]
                 ELSE /\ all_contacts' = [all_contacts EXCEPT ![cur] =
                              SetCompanyIndustry(SetCompanySize(c, company_data), company_data)]
                      /\ UNCHANGED <<pc, crashedIn>>
    /\ cur' = cur + 1
    /\ UNCHANGED <<keys, api_status, message, selected_city, selected_roles,
                   max_results, apollo_results, stage1_contacts, lastHunter,
                   hunterCalls, hunterSet, rows, metrics>>

Step3End ==
    /\ pc = "step3loop"
    /\ cur > Len(all_contacts)
    /\ pc' = "step4"
    /\ UNCHANGED <<keys, api_status, message, selected_city, selected_roles,
                   max_results, apollo_results, all_contacts, stage1_contacts, cur,
                   lastHunter, lastClearbit, hunterCalls, clearbitCalls, hunterSet, crashedIn,
                   rows, metrics>>

\* ------------------------------------------------ Step 4: Format results
\* A value of the "LinkedIn Profile Link" column: the contact's own
\* linkedin_url value (kind "value"), or the search-results URL
\* https://linkedin.com/search/results/people/?keywords=<words joined by %20>
\* (kind "search").
UrlValue(text) == [kind |-> "value", text |-> text, keywords |-> <<>>]
SearchUrl(name) == [kind |-> "search", text |-> "", keywords |-> name]

\* `contact.get('linkedin_url', f"https://linkedin.com/search/...")`
LinkedinColumn(c) ==
    IF c.linkedin_url = ABSENT THEN SearchUrl(c.name) ELSE UrlValue(c.linkedin_url)

FormatRow(i, c, city) ==
    [date |-> "today",
     sr_no |-> i,
     city |-> city,
     linkedin |-> LinkedinColumn(c),
     name |-> c.name,
     phone |-> Get(c.phone, NotAvailable),
     email |-> Get(c.email, NotAvailable),
     company |-> c.company,
     source |-> Get(c.source, <<"API">>)]

\* len(df[df[column] != 'Not Available'])
CountAvailable(rs, column) ==
    Cardinality({i \in 1..Len(rs) : rs[i][column] /= NotAvailable})

\* df['Organization Name'].nunique(): distinct values, None not counted.
NUnique(rs) == Cardinality({rs[i].company : i \in 1..Len(rs)} \ {NONE})

Step4Format ==
    /\ pc = "step4"
    /\ all_contacts /= <<>>
    /\ LET formatted_data ==
               [i \in 1..Len(all_contacts) |-> FormatRow(i, all_contacts[i], selected_city)]
       IN  /\ rows' = formatted_data
           /\ metrics' = [total |-> Len(formatted_data),
                          emails_found |-> CountAvailable(formatted_data, "email"),
                          phones_found |-> CountAvailable(formatted_data, "phone"),
                          companies |-> NUnique(formatted_data)]
    /\ message' = "found"
    /\ pc' = "done"
    /\ UNCHANGED <<keys, api_status, selected_city, selected_roles, max_results,
                   apollo_results, all_contacts, stage1_contacts, cur, lastHunter, lastClearbit,
                   hunterCalls, clearbitCalls, hunterSet, crashedIn>>

Step4NoContacts ==
    /\ pc = "step4"
    /\ all_contacts = <<>>
    /\ message' = "no_contacts"
    /\ pc' = "done"
    /\ UNCHANGED <<keys, api_status, selected_city, selected_roles, max_results,
                   apollo_results, all_contacts, stage1_contacts, cur, lastHunter, lastClearbit,
                   hunterCalls, clearbitCalls, hunterSet, crashedIn, rows, metrics>>

Next ==
    \/ TestApiConnections
    \/ SearchNoRoles
    \/ SearchNoApi
    \/ SearchStart
    \/ Step1Skip
    \/ Step1Search
    \/ Step2SkipStage
    \/ Step2Begin
    \/ Step2NoCall
    \/ Step2Call
    \/ Step2End
    \/ Step3SkipStage
    \/ Step3Begin
    \/ Step3NoCall
    \/ Step3Call
    \/ Step3End
    \/ Step4Format
    \/ Step4NoContacts

Spec == Init /\ [][Next]_vars


\* ---------------------------------------------------------------- claims
Idx == 1..Len(all_contacts)
Falsy(v) == ~Truthy(v)
Finished == pc \in {"done", "error", "crashed"}
SourceHas(c, provider) == \E k \in 1..Len(c.source) : c.source[k] = provider

\* C1: when Apollo is unavailable in the availability map, the contact list
\* stays empty whatever the availability of Hunter and Clearbit, and no
\* email-finder or company-enrichment call is issued.
C1_ApolloDownYieldsNothing ==
    (pc /= "start" /\ ~api_status["apollo"]) =>
        /\ all_contacts = <<>>
        /\ rows = <<>>
        /\ hunterCalls = {} /\ ~lastHunter.called
        /\ clearbitCalls = {} /\ ~lastClearbit.called

\* C1 witness: a search ran to its end with Apollo down and both other
\* providers up.
C1_Witness ==
    /\ pc = "done"
    /\ ~api_status["apollo"] /\ api_status["hunter"] /\ api_status["clearbit"]

\* C2 (as claimed): when people-search returned at least max_results person
\* objects and Step 1 completed, the pipeline holds exactly max_results
\* contacts.
C2_ExactlyLimit ==
    (pc \in {"step2", "step2loop", "step3", "step3loop", "step4", "done"}
        /\ Len(apollo_results) >= max_results)
    => Len(all_contacts) = max_results

\* C3 (as claimed): for the contact of the latest email-finder call, a
\* reply with confidence <= 50 never populates its email and a reply with
\* confidence > 50 always does.
C3_ConfidenceDecides ==
    lastHunter.called =>
        LET r == lastHunter.reply
            c == all_contacts[lastHunter.idx]
        IN  (r.data_kind = "obj" /\ r.conf_kind = "int") =>
                /\ r.confidence <= ConfidenceThreshold => Falsy(c.email)
                /\ r.confidence > ConfidenceThreshold => Truthy(c.email)

\* C3 (amended): a reply with confidence <= 50, or with none, never
\* populates the email; a reply with confidence > 50 populates it exactly
\* when it is a 200 reply that carries a non-empty email, and then the
\* contact's email is that email.
C3_ConfidenceAndEmailDecide ==
    lastHunter.called =>
        LET r == lastHunter.reply
            c == all_contacts[lastHunter.idx]
            hasConfidence == r.data_kind = "obj" /\ r.conf_kind = "int"
            usable == r.status = "200" /\ r.email /= ABSENT /\ r.email /= ""
        IN  /\ (~hasConfidence \/ r.confidence <= ConfidenceThreshold) => Falsy(c.email)
            /\ (hasConfidence /\ r.confidence > ConfidenceThreshold)
                 => (Truthy(c.email) <=> usable)
            /\ Truthy(c.email) => c.email = r.email

\* C3 witness: a reply at confidence 51 populated the email of the contact
\* it was asked for.
C3_Witness ==
    /\ lastHunter.called
    /\ lastHunter.reply.confidence = ConfidenceThreshold + 1
    /\ lastHunter.reply.status = "200"
    /\ all_contacts[lastHunter.idx].email = HunterEmail

\* C4: a contact whose company is empty after Step 1 is never passed to the
\* email finder or to company enrichment, and keeps every field Step 1 gave
\* it, whatever the providers' availability and replies.
C4_NoCompanyUntouched ==
    \A i \in 1..Len(stage1_contacts) :
        Falsy(stage1_contacts[i].company) =>
            /\ i \in Idx
            /\ all_contacts[i] = stage1_contacts[i]
            /\ i \notin hunterCalls
            /\ i \notin clearbitCalls

\* C4 witness: both enrichment steps ran over a list that holds a contact
\* without company, and another contact of that list was enriched.
C4_Witness ==
    /\ pc = "done"
    /\ api_status["hunter"] /\ api_status["clearbit"]
    /\ \E i \in Idx : Falsy(stage1_contacts[i].company) /\ Falsy(all_contacts[i].email)
    /\ hunterCalls /= {}
    /\ clearbitCalls /= {}

\* C5 (as claimed): no failure while enriching a contact in Step 2 or
\* Step 3 ends the run: the script is never stopped by an exception there.
C5_EnrichmentNeverAborts ==
    ~(pc = "crashed" /\ crashedIn \in {"step2", "step3"})

C7_LinkedinFallback ==
    pc = "done" =>
        \A i \in 1..Len(rows) :
            apollo_results[i].linkedin_url \in {ABSENT, NONE, ""}
                => rows[i].linkedin = SearchUrl(all_contacts[i].name)

\* C8 (as claimed): in the formatted table, an empty email (phone) shows as
\* the placeholder, and the emails-found (phones-found) statistic counts
\* exactly the contacts with a real email (phone).
C8_Placeholders ==
    pc = "done" =>
        /\ \A i \in 1..Len(rows) :
              /\ Falsy(all_contacts[i].email) => rows[i].email = NotAvailable
              /\ Falsy(all_contacts[i].phone) => rows[i].phone = NotAvailable
        /\ metrics.emails_found = Cardinality({i \in Idx : Truthy(all_contacts[i].email)})
        /\ metrics.phones_found = Cardinality({i \in Idx : Truthy(all_contacts[i].phone)})

\* C9: every contact's source starts with Apollo.io and only grows: it is
\* the Step 1 source followed by Hunter.io exactly when Step 2 set the
\* contact's email, and by nothing else; company enrichment never changes it.
C9_SourceProvenance ==
    \A i \in Idx :
        LET c == all_contacts[i]
            setByHunter == c.email /= stage1_contacts[i].email
        IN  /\ c.source /= <<>>
            /\ c.source[1] = "Apollo.io"
            /\ SubSeq(c.source, 1, Len(stage1_contacts[i].source)) = stage1_contacts[i].source
            /\ SourceHas(c, "Hunter.io") <=> setByHunter
            /\ setByHunter <=> i \in hunterSet
            /\ Len(c.source) = IF setByHunter THEN 2 ELSE 1

\* C9 witness: a contact got its email from Step 2 and company data from
\* Step 3, and another call of Step 3 brought nothing.
C9_Witness ==
    /\ pc = "done"
    /\ \E i \in hunterSet : all_contacts[i].company_industry = "Software"
    /\ \E j \in clearbitCalls : all_contacts[j].company_size = ABSENT

\* C10 (as claimed): Step 1 fails on no person object, and every one of
\* title, company, linkedin_url, email and phone of every contact is a
\* string, never None (name is a string by construction).
C10_ContactsHoldStrings ==
    /\ crashedIn /= "step1"
    /\ \A i \in Idx :
          LET c == all_contacts[i]
          IN  NONE \notin {c.title, c.company, c.linkedin_url, c.email, c.phone}

====
